---- MODULE Spec2Model ----
(***************************************************************************)
(* A model of the bi-directional synchronization engine of PeitchGIT       *)
(* (src/src/modules/sync_engine/src/sync.rs): the persistent SyncState,    *)
(* SyncEngine::new, SyncEngine::run with its fetch, analysis, decision and *)
(* save steps, and the command entry point handle_run_sync.                *)
(*                                                                         *)
(* Commits are the numbers 1..MaxCommits; a commit's parents are smaller   *)
(* numbers, so the numbering is a commit-time order.  Each repository has  *)
(* its own object database (the set of commits it holds) and its own local *)
(* branch "main".  The git2 primitives (merge_base, graph_ahead_behind,    *)
(* fetch) are modelled by what libgit2 computes on such a database.        *)
(***************************************************************************)
EXTENDS Integers, Sequences, FiniteSets, TLC

\* ------------------------------------------------------------------ bounds
MaxCommits == 3

Commits == 1..MaxCommits

\* ------------------------------------------------------------ option, result
None == <<>>
Some(x) == <<x>>
IsSome(o) == Len(o) = 1
Unwrap(o) == o[1]

Ok(v) == [ok |-> TRUE, val |-> v, err |-> ""]
Err(m) == [ok |-> FALSE, val |-> 0, err |-> m]

\* ------------------------------------------------------------------- Oid
\* Oid::to_string: the hexadecimal name of a commit.
HexNames == <<"a1", "b2", "c3", "d4", "e5", "f6">>
OidToString(c) == HexNames[c]

\* Oid::from_str: parses a hexadecimal name; any other string is an error.
OidFromStr(s) ==
    IF \E c \in Commits : HexNames[c] = s
    THEN Ok(CHOOSE c \in Commits : HexNames[c] = s)
    ELSE Err("git2: unable to parse OID")

\* The strings a checkpoint file holds as an id: the names of the commits.
OidStrings == {HexNames[c] : c \in Commits}

\* ------------------------------------------------------------ commit graph
\* The parent relations the model ranges over: every DAG on Commits whose
\* edges go from a commit to smaller ones.
ParentMaps == {p \in [Commits -> SUBSET Commits] : \A c \in Commits : p[c] \subseteq 1..(c - 1)}

RECURSIVE Anc(_, _)
\* The commits reachable from c (c included) under parent map p.
Anc(p, c) == {c} \cup UNION {Anc(p, q) : q \in p[c]}

SetMax(S) == CHOOSE x \in S : \A y \in S : y <= x

\* The best common ancestors of a and b: the common ancestors that are not
\* reachable from another common ancestor.
BestCommon(p, a, b) ==
    LET common == Anc(p, a) \cap Anc(p, b)
    IN {c \in common : \A d \in common \ {c} : c \notin Anc(p, d)}

\* Repository::merge_base on a repository holding the commits odb: an error
\* when a commit is not in the object database or when there is no common
\* ancestor, else the most recent best common ancestor.
MergeBase(p, odb, a, b) ==
    IF a \notin odb \/ b \notin odb THEN Err("git2: object not found")
    ELSE IF BestCommon(p, a, b) = {} THEN Err("git2: no merge base found")
    ELSE Ok(SetMax(BestCommon(p, a, b)))

\* A variant that takes the second component, the behind count.
GraphBehind(p, odb, local, upstream) ==
    IF local \notin odb \/ upstream \notin odb THEN Err("git2: object not found")
    ELSE Ok(Cardinality(Anc(p, upstream) \ Anc(p, local)))

\* A variant that only tells whether local is ahead of upstream.
GraphAheadIsFlag(p, odb, local, upstream) ==
    IF local \notin odb \/ upstream \notin odb THEN Err("git2: object not found")
    ELSE Ok(IF Anc(p, local) \subseteq Anc(p, upstream) THEN 0 ELSE 1)

\* Repository::graph_ahead_behind(local, upstream), first component: the
\* number of commits reachable from local and not from upstream.
GraphAhead(p, odb, local, upstream) ==
    IF local \notin odb \/ upstream \notin odb THEN Err("git2: object not found")
    ELSE Ok(Cardinality(Anc(p, local) \ Anc(p, upstream)))

\* ------------------------------------------------------- the state model
\* SyncState: two optional id strings.
SyncStateDefault == [last_source_synced_oid |-> None, last_target_synced_oid |-> None]

\* A JSON value of a checkpoint file field: absent from the object, null, or
\* a string.  The files the model ranges over have both fields, each null or
\* the name of a commit.
JMissing == <<"missing">>
JNull == <<"null">>
JStr(s) == <<"str", s>>
JsonVals == {JNull} \cup {JStr(s) : s \in OidStrings}

\* The content of the state file: no file, a file that is no JSON object, or
\* a JSON object with the two fields.
NoFile == [exists |-> FALSE, json |-> FALSE, src |-> JMissing, tgt |-> JMissing]
Garbage == [exists |-> TRUE, json |-> FALSE, src |-> JMissing, tgt |-> JMissing]
JsonFile(s, t) == [exists |-> TRUE, json |-> TRUE, src |-> s, tgt |-> t]
Files == {NoFile, Garbage} \cup {JsonFile(s, t) : s \in JsonVals, t \in JsonVals}

\* serde_json::to_string_pretty of a SyncState: both fields are written,
\* None as null.
OptToJson(o) == IF IsSome(o) THEN JStr(Unwrap(o)) ELSE JNull
ToJson(st) ==
    JsonFile(OptToJson(st.last_source_synced_oid), OptToJson(st.last_target_synced_oid))

\* serde_json::from_str into a SyncState: an Option field that is missing or
\* null is None, a string is Some, anything else is an error.
FieldOk(j) == j[1] \in {"missing", "null", "str"}
\* A variant that reads a JSON null as the text "null".
OptFromJsonNullAsText(j) == IF j[1] = "missing" THEN None ELSE Some(j[Len(j)])

OptFromJson(j) == IF j[1] = "str" THEN Some(j[2]) ELSE None
FromJsonOk(f) == f.json /\ FieldOk(f.src) /\ FieldOk(f.tgt)
FromJson(f) ==
    [last_source_synced_oid |-> OptFromJson(f.src),
     last_target_synced_oid |-> OptFromJson(f.tgt)]

\* ------------------------------------------------------------------ state
VARIABLES
    parents,   \* the commit graph: parents[c] is the set of parents of c
    srcHead,   \* source repository: the commit of local branch main
    tgtHead,   \* target repository: the commit of local branch main
    srcOdb,    \* source repository: the commits in its object database
    tgtOdb,    \* target repository: the commits in its object database
    disk,      \* the content of <source>/.git/gitph_sync_state.json
    state,     \* SyncEngine.state, the in-memory SyncState
    pc,        \* the position of the one sync-run invocation
    loc,       \* run()'s locals: heads, base and ahead counts
    result,    \* what handle_run_sync returned
    trace,     \* the steps the current invocation has taken, in order
    snap,      \* the branch heads and the checkpoint as the invocation found them
    prev,      \* the analysis an earlier invocation printed, kept to compare two runs
    callers,   \* module_exec: the position of each concurrent sync-run call
    lock,      \* module_exec: per process, the caller holding the RUNTIME mutex
    send,      \* git_ops handle_send: its arguments, the step it is at, its locals
    sendLog,   \* git_ops handle_send: the git commands it has run, in order
    sendResult,\* git_ops handle_send: what it returned
    pipeSpec,  \* pipeline controller: spec.stages, each stage its steps' names
    pipeMeta,  \* pipeline controller: the object's finalizer and deletion marks
    pipeStatus,\* pipeline controller: status.phase and the two indices
    jobs,      \* pipeline controller: the Jobs in the namespace, by name
    created,   \* pipeline controller: the positions a Job was created at, in order
    controller \* pipeline controller: "up", or "panicked" once a reconcile panicked

execVars == <<callers, lock>>
sendVars == <<send, sendLog, sendResult>>
pipeVars == <<pipeSpec, pipeMeta, pipeStatus, jobs, created, controller>>
syncVars == <<parents, srcHead, tgtHead, srcOdb, tgtOdb, disk, state, pc, loc, result, trace, snap, prev>>
\* What an action of the sync engine leaves alone.
elsewhere == <<execVars, sendVars, pipeVars>>
vars == <<syncVars, execVars, sendVars, pipeVars>>

NoLoc == [source_head |-> 0, target_head |-> 0, base_oid |-> 0,
          source_ahead |-> 0, target_ahead |-> 0]
NoResult == [ok |-> TRUE, msg |-> ""]
NoSnap == [srcHead |-> 0, tgtHead |-> 0, disk |-> NoFile, state |-> SyncStateDefault]
NoPrev == [set |-> FALSE, swapped |-> FALSE, ok |-> FALSE, loc |-> NoLoc,
           srcHead |-> 0, tgtHead |-> 0, state |-> SyncStateDefault, disk |-> NoFile]

Event(e, n) == [ev |-> e, n |-> n]

\* The messages run() and handle_run_sync return.
MsgUsage == "Usage: sync-run <path_to_source_repo> <path_to_target_repo>"
MsgInit == "Failed to initialize sync engine"
MsgDiverged == "Repositories have diverged! Manual intervention required."
MsgForward == "Sync from source to target not yet implemented."
MsgReverse == "Sync from target to source not yet implemented."
MsgInSync == "Repositories are already in sync."
MsgFetch == "git2: fetch failed"
MsgSavedBase == "Could not find merge base for saved OIDs"
MsgIo == "io: write failed"

\* No sync-run call is under way in module_exec, handle_send has not been
\* called and there is no pipeline.
ExecIdle == callers = <<>> /\ lock = <<>>
NoSend == [at |-> "off", nargs |-> 0, skip |-> FALSE, tree |-> "dirty",
           up |-> "unasked", remote |-> "", branch |-> <<>>, confirmation |-> ""]
NoSendResult == [ok |-> TRUE, err |-> "", detail |-> "", remote |-> "", branch |-> <<>>]
SendIdle == send = NoSend /\ sendLog = <<>> /\ sendResult = NoSendResult
\* The most stages of a pipeline and the most steps of a stage.
MaxStages == 2
MaxSteps == 2
\* Step names, character by character.
StepNames == {<<"a">>, <<"b", "_", "c">>, <<"b", "-", "c">>}
\* current_step.name.replace('_', "-")
Replace(name) == [i \in 1..Len(name) |-> IF name[i] = "_" THEN "-" ELSE name[i]]
\* format!("{}-s{}-{}", pipeline.name_any(), stage_index, ...) within one
\* pipeline: the stage index and the replaced step name.
JobName(stage_index, name) == <<stage_index, Replace(name)>>
JobNames == {JobName(s, n) : s \in 0..(MaxStages - 1), n \in StepNames}
\* A Job: absent, without status yet, or with its succeeded and failed counts.
NoJob == [exists |-> FALSE, status |-> FALSE, succeeded |-> 0, failed |-> 0]
\* PhgitPipelineStatus::default()
StatusDefault == [phase |-> "None", stage |-> None, step |-> None]
NoPipeSpec == [some |-> FALSE, stages |-> <<>>]
PipeIdle ==
    /\ pipeSpec = NoPipeSpec
    /\ pipeMeta = [finalizer |-> FALSE, deleting |-> FALSE, gone |-> TRUE]
    /\ pipeStatus = StatusDefault
    /\ jobs = [j \in JobNames |-> NoJob]
    /\ created = <<>>
    /\ controller = "up"

\* Both repositories have a local branch main; a repository holds at least
\* the history of its head.

SyncInit ==
    /\ parents \in ParentMaps
    /\ srcHead \in Commits
    /\ tgtHead \in Commits
    /\ srcOdb = Anc(parents, srcHead)
    /\ tgtOdb = Anc(parents, tgtHead)
    /\ disk \in Files
    /\ state = SyncStateDefault
    /\ pc = "idle"
    /\ loc = NoLoc
    /\ result = NoResult
    /\ trace = <<>>
    /\ snap = NoSnap
    /\ prev = NoPrev

Init == SyncInit /\ ExecIdle /\ SendIdle /\ PipeIdle

\* --------------------------------------------------------- SyncEngine::new
\* The state new() loads: the default when the file does not exist, an error
\* when it cannot be read or parsed.
LoadState(f, readable) ==
    IF ~f.exists THEN Ok(SyncStateDefault)
    ELSE IF ~readable THEN Err("io: read failed")
    ELSE IF ~FromJsonOk(f) THEN Err("serde_json: invalid state file")
    ELSE Ok(FromJson(f))

Finish(r) ==
    /\ result' = r
    /\ pc' = "done"

\* A variant that takes any two or more arguments.
HandleRunSyncAtLeastTwo(nargs, opens, readable) ==
    LET loaded == LoadState(disk, readable)
        built == nargs >= 2 /\ opens /\ loaded.ok
    IN /\ pc = "idle"
       /\ state' = IF built THEN loaded.val ELSE state
       /\ snap' = [srcHead |-> srcHead, tgtHead |-> tgtHead, disk |-> disk,
                   state |-> state']
       /\ UNCHANGED <<elsewhere, prev, parents, srcHead, tgtHead, srcOdb, tgtOdb, disk, loc>>
       /\ IF nargs < 2
          THEN /\ Finish([ok |-> FALSE, msg |-> MsgUsage])
               /\ trace' = <<Event("usage", nargs)>>
          ELSE IF ~built
          THEN /\ Finish([ok |-> FALSE, msg |-> MsgInit])
               /\ trace' = <<Event(IF opens THEN "load_failed" ELSE "open_failed", nargs)>>
          ELSE /\ trace' = <<Event("new", nargs)>>
               /\ pc' = "fetch_source"
               /\ UNCHANGED result

\* handle_run_sync: the arity check, SyncEngine::new, and the entry into run().
\* nargs is the number of arguments; opens and readable say whether the two
\* repositories open and whether the state file can be read.
HandleRunSync(nargs, opens, readable) ==
    LET loaded == LoadState(disk, readable)
        built == nargs = 2 /\ opens /\ loaded.ok
    IN /\ pc = "idle"
       /\ state' = IF built THEN loaded.val ELSE state
       /\ snap' = [srcHead |-> srcHead, tgtHead |-> tgtHead, disk |-> disk,
                   state |-> state']
       /\ UNCHANGED <<elsewhere, prev, parents, srcHead, tgtHead, srcOdb, tgtOdb, disk, loc>>
       /\ IF nargs # 2
          THEN /\ Finish([ok |-> FALSE, msg |-> MsgUsage])
               /\ trace' = <<Event("usage", nargs)>>
          ELSE IF ~built
          THEN /\ Finish([ok |-> FALSE, msg |-> MsgInit])
               /\ trace' = <<Event(IF opens THEN "load_failed" ELSE "open_failed", nargs)>>
          ELSE /\ trace' = <<Event("new", nargs)>>
               /\ pc' = "fetch_source"
               /\ UNCHANGED result

\* ------------------------------------------------- SyncEngine::fetch_repo
\* What a fetch of origin's main leaves in an object database: the commits
\* it had and the history of the remote's head.  The local branch is not moved.
FetchInto(p, odb, remoteHead) == odb \cup Anc(p, remoteHead)

\* A variant that goes on to the analysis without fetching the target.
FetchSourceOnly(fetched, remoteHead) ==
    /\ pc = "fetch_source"
    /\ trace' = Append(trace, Event("fetch_source", IF fetched THEN 0 ELSE 1))
    /\ UNCHANGED <<elsewhere, prev, parents, srcHead, tgtHead, tgtOdb, disk, state, loc, snap>>
    /\ IF fetched
       THEN /\ srcOdb' = FetchInto(parents, srcOdb, remoteHead)
            /\ pc' = "analyze"
            /\ UNCHANGED result
       ELSE /\ Finish([ok |-> FALSE, msg |-> MsgFetch])
            /\ UNCHANGED srcOdb

\* run(), phase 1, first await: fetch_repo("source").  fetched says whether
\* find_remote and fetch succeed; remoteHead is origin's main.
FetchSource(fetched, remoteHead) ==
    /\ pc = "fetch_source"
    /\ trace' = Append(trace, Event("fetch_source", IF fetched THEN 0 ELSE 1))
    /\ UNCHANGED <<elsewhere, prev, parents, srcHead, tgtHead, tgtOdb, disk, state, loc, snap>>
    /\ IF fetched
       THEN /\ srcOdb' = FetchInto(parents, srcOdb, remoteHead)
            /\ pc' = "fetch_target"
            /\ UNCHANGED result
       ELSE /\ Finish([ok |-> FALSE, msg |-> MsgFetch])
            /\ UNCHANGED srcOdb

\* A variant that logs a failed fetch of the target and goes on.
FetchTargetLenient(fetched, remoteHead) ==
    /\ pc = "fetch_target"
    /\ trace' = Append(trace, Event("fetch_target", IF fetched THEN 0 ELSE 1))
    /\ UNCHANGED <<elsewhere, prev, parents, srcHead, tgtHead, srcOdb, disk, state, loc, snap, result>>
    /\ tgtOdb' = IF fetched THEN FetchInto(parents, tgtOdb, remoteHead) ELSE tgtOdb
    /\ pc' = "analyze"

\* run(), phase 1, second await: fetch_repo("target").
FetchTarget(fetched, remoteHead) ==
    /\ pc = "fetch_target"
    /\ trace' = Append(trace, Event("fetch_target", IF fetched THEN 0 ELSE 1))
    /\ UNCHANGED <<elsewhere, prev, parents, srcHead, tgtHead, srcOdb, disk, state, loc, snap>>
    /\ IF fetched
       THEN /\ tgtOdb' = FetchInto(parents, tgtOdb, remoteHead)
            /\ pc' = "analyze"
            /\ UNCHANGED result
       ELSE /\ Finish([ok |-> FALSE, msg |-> MsgFetch])
            /\ UNCHANGED tgtOdb

\* --------------------------------------------- SyncEngine::find_sync_base
\* A variant that always takes the merge base of the current heads.
FindSyncBaseFromHeads(p, st, odb, source_oid, target_oid) ==
    MergeBase(p, odb, source_oid, target_oid)

\* A variant that takes a single saved id as the base.
FindSyncBaseAnyId(p, st, odb, source_oid, target_oid) ==
    IF IsSome(st.last_source_synced_oid) \/ IsSome(st.last_target_synced_oid)
    THEN LET one == IF IsSome(st.last_source_synced_oid)
                    THEN st.last_source_synced_oid ELSE st.last_target_synced_oid
             o == OidFromStr(Unwrap(one))
         IN IF ~o.ok THEN o
            ELSE IF MergeBase(p, odb, o.val, o.val).ok
                 THEN MergeBase(p, odb, o.val, o.val)
                 ELSE Err(MsgSavedBase)
    ELSE MergeBase(p, odb, source_oid, target_oid)

\* With both saved ids present: the merge base, in the source repository, of
\* the saved ids, or an error.  Otherwise the merge base of the current heads.
FindSyncBase(p, st, odb, source_oid, target_oid) ==
    IF IsSome(st.last_source_synced_oid) /\ IsSome(st.last_target_synced_oid)
    THEN LET s == OidFromStr(Unwrap(st.last_source_synced_oid))
             t == OidFromStr(Unwrap(st.last_target_synced_oid))
         IN IF ~s.ok THEN s
            ELSE IF ~t.ok THEN t
            ELSE IF MergeBase(p, odb, s.val, t.val).ok
                 THEN MergeBase(p, odb, s.val, t.val)
                 ELSE Err(MsgSavedBase)
    ELSE MergeBase(p, odb, source_oid, target_oid)

\* A variant that counts both sides on the source's head.
AnalysisOneHead(p, st, sOdb, tOdb, sh, th) ==
         LET base == FindSyncBase(p, st, sOdb, sh, th)
         IN IF ~base.ok THEN [ok |-> FALSE, err |-> base.err, loc |-> NoLoc]
            ELSE LET sa == GraphAhead(p, sOdb, sh, base.val)
                     ta == GraphAhead(p, sOdb, sh, base.val)
                 IN IF ~sa.ok THEN [ok |-> FALSE, err |-> sa.err, loc |-> NoLoc]
                    ELSE [ok |-> TRUE, err |-> "",
                          loc |-> [source_head |-> sh, target_head |-> th,
                                   base_oid |-> base.val,
                                   source_ahead |-> sa.val, target_ahead |-> ta.val]]

\* run(), phase 2: the two heads, the base and the two ahead counts, or the
\* first error met.  Both repositories have a local branch main, so the two
\* find_branch calls succeed.
Analysis(p, st, sOdb, tOdb, sh, th) ==
         LET base == FindSyncBase(p, st, sOdb, sh, th)
         IN IF ~base.ok THEN [ok |-> FALSE, err |-> base.err, loc |-> NoLoc]
            ELSE LET sa == GraphAhead(p, sOdb, sh, base.val)
                     ta == GraphAhead(p, tOdb, th, base.val)
                 IN IF ~sa.ok THEN [ok |-> FALSE, err |-> sa.err, loc |-> NoLoc]
                    ELSE IF ~ta.ok THEN [ok |-> FALSE, err |-> ta.err, loc |-> NoLoc]
                    ELSE [ok |-> TRUE, err |-> "",
                          loc |-> [source_head |-> sh, target_head |-> th,
                                   base_oid |-> base.val,
                                   source_ahead |-> sa.val, target_ahead |-> ta.val]]

Analyze ==
    LET a == Analysis(parents, state, srcOdb, tgtOdb, srcHead, tgtHead)
    IN /\ pc = "analyze"
       /\ trace' = Append(trace, Event("analyze", 0))
       /\ loc' = a.loc
       /\ UNCHANGED <<elsewhere, prev, parents, srcHead, tgtHead, srcOdb, tgtOdb, disk, state, snap>>
       /\ IF a.ok
          THEN pc' = "decide" /\ UNCHANGED result
          ELSE Finish([ok |-> FALSE, msg |-> a.err])

\* A variant without the divergence test: the source wins when both are ahead.
DecideNoDivergence(source_ahead, target_ahead) ==
    IF source_ahead > 0 THEN "Forward"
    ELSE IF target_ahead > 0 THEN "Reverse"
    ELSE "UpToDate"

\* A variant that tests the target first.
DecideTargetFirst(source_ahead, target_ahead) ==
    IF source_ahead > 0 /\ target_ahead > 0 THEN "Diverged"
    ELSE IF target_ahead >= 0 /\ source_ahead = 0 THEN "Reverse"
    ELSE IF source_ahead > 0 THEN "Forward"
    ELSE "UpToDate"

\* run(), phase 3: the branch taken on the two ahead counts.
Decide(source_ahead, target_ahead) ==
    IF source_ahead > 0 /\ target_ahead > 0 THEN "Diverged"
    ELSE IF source_ahead > 0 THEN "Forward"
    ELSE IF target_ahead > 0 THEN "Reverse"
    ELSE "UpToDate"

\* The SyncState a forward or reverse branch records: both ids are the head
\* of the side that is ahead.
Synced(head) ==
    [last_source_synced_oid |-> Some(OidToString(head)),
     last_target_synced_oid |-> Some(OidToString(head))]

\* run(), phase 3 up to the call of save_state: the divergence error, the
\* in-sync message, or the "Applying" line and the update of self.state.
Apply ==
    LET d == Decide(loc.source_ahead, loc.target_ahead)
    IN /\ pc = "decide"
       /\ UNCHANGED <<elsewhere, prev, parents, srcHead, tgtHead, srcOdb, tgtOdb, disk, loc, snap>>
       /\ CASE d = "Diverged" ->
                 /\ Finish([ok |-> FALSE, msg |-> MsgDiverged])
                 /\ trace' = Append(trace, Event("diverged", 0))
                 /\ UNCHANGED state
            [] d = "Forward" ->
                 /\ trace' = Append(trace, Event("apply_forward", loc.source_ahead))
                 /\ state' = Synced(loc.source_head)
                 /\ pc' = "save"
                 /\ UNCHANGED result
            [] d = "Reverse" ->
                 /\ trace' = Append(trace, Event("apply_reverse", loc.target_ahead))
                 /\ state' = Synced(loc.target_head)
                 /\ pc' = "save"
                 /\ UNCHANGED result
            [] OTHER ->
                 /\ Finish([ok |-> TRUE, msg |-> MsgInSync])
                 /\ trace' = Append(trace, Event("up_to_date", 0))
                 /\ UNCHANGED state

\* ------------------------------------------------- SyncEngine::save_state
\* std::fs::write creates or truncates the file and then writes the text: the
\* file afterwards holds the new text, or, when the write fails, what it held
\* (the file could not be opened) or a truncated text.
WriteOutcomes(old, new) == {[ok |-> TRUE, file |-> new],
                            [ok |-> FALSE, file |-> old],
                            [ok |-> FALSE, file |-> Garbage]}

\* The message of the branch that called save_state.
AppliedMsg(d) == IF d = "Forward" THEN MsgForward ELSE MsgReverse

Save ==
    /\ pc = "save"
    /\ \E w \in WriteOutcomes(disk, ToJson(state)) :
          /\ disk' = w.file
          /\ trace' = Append(trace, Event(IF w.ok THEN "persist" ELSE "persist_failed", 0))
          /\ Finish(IF w.ok THEN [ok |-> TRUE,
                                   msg |-> AppliedMsg(Decide(loc.source_ahead, loc.target_ahead))]
                            ELSE [ok |-> FALSE, msg |-> MsgIo])
    /\ UNCHANGED <<elsewhere, prev, parents, srcHead, tgtHead, srcOdb, tgtOdb, state, loc, snap>>

\* The process dies inside save_state's std::fs::write: before the file was
\* opened, after it was truncated and before the content was complete, or
\* after the last byte was written.
CrashInSave ==
    /\ pc = "save"
    /\ disk' \in {disk, Garbage, ToJson(state)}
    /\ pc' = "idle"
    /\ state' = SyncStateDefault
    /\ loc' = NoLoc
    /\ result' = NoResult
    /\ trace' = <<>>
    /\ snap' = NoSnap
    /\ UNCHANGED <<elsewhere, prev, parents, srcHead, tgtHead, srcOdb, tgtOdb>>

\* The invocation has returned; the engine is dropped.
Return ==
    /\ pc = "done"
    /\ pc' = "idle"
    /\ state' = SyncStateDefault
    /\ loc' = NoLoc
    /\ result' = NoResult
    /\ trace' = <<>>
    /\ snap' = NoSnap
    /\ UNCHANGED <<elsewhere, prev, parents, srcHead, tgtHead, srcOdb, tgtOdb, disk>>

\* ------------------------------------------------------------ environment
\* Between invocations a user commits on top of a side's branch.
CommitSource(c) ==
    /\ pc = "idle"
    /\ srcHead \in parents[c]
    /\ srcHead' = c
    /\ srcOdb' = srcOdb \cup Anc(parents, c)
    /\ UNCHANGED <<elsewhere, prev, parents, tgtHead, tgtOdb, disk, state, pc, loc, result, trace, snap>>

CommitTarget(c) ==
    /\ pc = "idle"
    /\ tgtHead \in parents[c]
    /\ tgtHead' = c
    /\ tgtOdb' = tgtOdb \cup Anc(parents, c)
    /\ UNCHANGED <<elsewhere, prev, parents, srcHead, srcOdb, disk, state, pc, loc, result, trace, snap>>

Next ==
    \/ \E n \in 1..3, opens \in BOOLEAN, readable \in BOOLEAN : HandleRunSync(n, opens, readable)
    \/ \E fetched \in BOOLEAN, h \in Commits : FetchSource(fetched, h)
    \/ \E fetched \in BOOLEAN, h \in Commits : FetchTarget(fetched, h)
    \/ Analyze
    \/ Apply
    \/ Save
    \/ CrashInSave
    \/ Return
    \/ \E c \in Commits : CommitSource(c)
    \/ \E c \in Commits : CommitTarget(c)

Spec == Init /\ [][Next]_vars

\* ------------------------------------------------- two invocations compared
\* An invocation that reached the analysis has returned and its analysis, as
\* printed after the counts were computed, is kept; the engine is dropped.
Remember ==
    /\ pc = "done"
    /\ ~prev.set
    /\ Len(trace) >= 4
    /\ prev' = [set |-> TRUE, swapped |-> FALSE, ok |-> Len(trace) >= 5, loc |-> loc,
                srcHead |-> srcHead, tgtHead |-> tgtHead, state |-> snap.state,
                disk |-> NoFile]
    /\ pc' = "idle"
    /\ state' = SyncStateDefault
    /\ loc' = NoLoc
    /\ result' = NoResult
    /\ trace' = <<>>
    /\ snap' = NoSnap
    /\ UNCHANGED <<elsewhere, parents, srcHead, tgtHead, srcOdb, tgtOdb, disk>>

\* The next invocation names the two paths in the other order: what was the
\* target is opened as the source, and the state file is the one under its
\* .git directory, where no run has written yet.
SwapRoles ==
    /\ pc = "idle"
    /\ prev.set /\ ~prev.swapped
    /\ srcHead = prev.srcHead
    /\ prev' = [prev EXCEPT !.swapped = TRUE]
    /\ srcHead' = tgtHead
    /\ tgtHead' = srcHead
    /\ srcOdb' = tgtOdb
    /\ tgtOdb' = srcOdb
    /\ disk' = NoFile
    /\ UNCHANGED <<elsewhere, parents, state, pc, loc, result, trace, snap>>

\* One invocation, then commits on the source or a swap of the roles, then a
\* second invocation; repositories open, the state file reads and the remotes
\* answer.
NextPair ==
    \/ HandleRunSync(2, TRUE, TRUE)
    \/ \E h \in Commits : FetchSource(TRUE, h)
    \/ \E h \in Commits : FetchTarget(TRUE, h)
    \/ Analyze
    \/ Apply
    \/ Save
    \/ Remember
    \/ SwapRoles
    \/ \E c \in Commits : ~prev.swapped /\ CommitSource(c)

SpecPair == Init /\ [][NextPair]_vars

\* ------------------------------------------- save_state and new() in turn
\* The values a SyncState can take: each id absent or the text of a commit id.
OptIds == {None} \cup {Some(s) : s \in OidStrings}
SyncStates == [last_source_synced_oid : OptIds, last_target_synced_oid : OptIds]

InitRoundTrip ==
    /\ parents = [c \in Commits |-> {}]
    /\ srcHead = 1
    /\ tgtHead = 1
    /\ srcOdb = {1}
    /\ tgtOdb = {1}
    /\ disk \in Files
    /\ state = SyncStateDefault
    /\ pc = "rt_idle"
    /\ loc = NoLoc
    /\ result = NoResult
    /\ trace = <<>>
    /\ snap = NoSnap
    /\ prev = NoPrev
    /\ ExecIdle /\ SendIdle /\ PipeIdle

\* save_state writes the engine's state; when the write fails goto is where
\* the engine is dropped.
SaveStep(from, to) ==
    /\ pc = from
    /\ \E w \in WriteOutcomes(disk, ToJson(state)) :
          /\ disk' = w.file
          /\ pc' = IF w.ok THEN to ELSE "rt_idle"
    /\ UNCHANGED <<elsewhere, parents, srcHead, tgtHead, srcOdb, tgtOdb, state, loc, result, trace, snap, prev>>

\* new() loads the state file into a fresh engine.
LoadStep(from, to) ==
    LET loaded == LoadState(disk, TRUE)
    IN /\ pc = from
       /\ state' = IF loaded.ok THEN loaded.val ELSE SyncStateDefault
       /\ pc' = IF loaded.ok THEN to ELSE "rt_load_failed"
       /\ UNCHANGED <<elsewhere, parents, srcHead, tgtHead, srcOdb, tgtOdb, disk, loc, result, trace, snap, prev>>

\* An engine holds the checkpoint x.
Hold(x) ==
    /\ pc = "rt_idle"
    /\ state' = x
    /\ pc' = "rt_store"
    /\ snap' = NoSnap
    /\ UNCHANGED <<elsewhere, parents, srcHead, tgtHead, srcOdb, tgtOdb, disk, loc, result, trace, prev>>

\* The file as save_state left it and the checkpoint it was written from are
\* noted.
Stored ==
    /\ pc = "rt_stored"
    /\ snap' = [NoSnap EXCEPT !.disk = disk, !.state = state]
    /\ pc' = "rt_load"
    /\ UNCHANGED <<elsewhere, parents, srcHead, tgtHead, srcOdb, tgtOdb, disk, state, loc, result, trace, prev>>

Forget ==
    /\ pc = "rt_reloaded"
    /\ pc' = "rt_idle"
    /\ state' = SyncStateDefault
    /\ snap' = NoSnap
    /\ UNCHANGED <<elsewhere, parents, srcHead, tgtHead, srcOdb, tgtOdb, disk, loc, result, trace, prev>>

NextRoundTrip ==
    \/ \E x \in SyncStates : Hold(x)
    \/ SaveStep("rt_store", "rt_stored")
    \/ Stored
    \/ LoadStep("rt_load", "rt_loaded")
    \/ SaveStep("rt_loaded", "rt_saved")
    \/ LoadStep("rt_saved", "rt_reloaded")
    \/ Forget

SpecRoundTrip == InitRoundTrip /\ [][NextRoundTrip]_vars

\* --------------------------------------------- two pairs with one source
\* A whole sync-run on another pair that has the same source repository and
\* a target whose main is at c: new() builds the state path from the source
\* path alone, so this run loads and saves the same file.  The content the
\* file had before is kept in prev.
OtherPairRun(c, remoteHead) ==
    LET loaded == LoadState(disk, TRUE)
        odb == FetchInto(parents, srcOdb, remoteHead)
        a == Analysis(parents, loaded.val, odb, Anc(parents, c), srcHead, c)
        d == Decide(a.loc.source_ahead, a.loc.target_ahead)
        saves == loaded.ok /\ a.ok /\ d \in {"Forward", "Reverse"}
        new == ToJson(Synced(IF d = "Forward" THEN srcHead ELSE c))
    IN /\ pc = "idle"
       /\ ~prev.set
       /\ prev' = [NoPrev EXCEPT !.set = TRUE, !.disk = disk]
       /\ srcOdb' = IF loaded.ok THEN odb ELSE srcOdb
       /\ disk' \in IF saves THEN {w.file : w \in WriteOutcomes(disk, new)} ELSE {disk}
       /\ UNCHANGED <<elsewhere, parents, srcHead, tgtHead, tgtOdb, state, pc, loc, result, trace, snap>>

\* A run on the one pair, after a run on the other pair or without it.
NextShared ==
    \/ \E c \in Commits, h \in Commits : OtherPairRun(c, h)
    \/ HandleRunSync(2, TRUE, TRUE)
    \/ \E h \in Commits : FetchSource(TRUE, h)
    \/ \E h \in Commits : FetchTarget(TRUE, h)
    \/ Analyze
    \/ Apply
    \/ Save

SpecShared == Init /\ [][NextShared]_vars

\* ------------------------------------------------------------ module_exec
\* GitphStatus, and the status module_exec returns for what the command
\* handler returned: Success for Ok, ErrorExecFailed for every Err.
Success == 0
ErrorExecFailed == -5
ModuleExecStatus(r) == IF r.ok THEN Success ELSE ErrorExecFailed

\* Concurrent calls of module_exec with sync-run on one repository pair.  Each
\* call is made in a process that has loaded the module; RUNTIME is a static
\* of the module, so there is one mutex per process.  The first call is in
\* the first process.
MaxCallers == 2
Callers == 1..MaxCallers
Procs == 1..MaxCallers
NoCaller == 0

InitExec ==
    /\ SyncInit
    /\ callers \in [Callers -> [pc : {"out"}, proc : Procs, from : {NoFile},
                                state : {SyncStateDefault}, stale : {FALSE},
                                status : {Success}]]
    /\ callers[1].proc = 1
    /\ lock = [p \in Procs |-> NoCaller]
    /\ SendIdle /\ PipeIdle

\* RUNTIME.lock(): the call waits until no other call of its process holds
\* the guard.
ExecLock(c) ==
    /\ callers[c].pc = "out"
    /\ lock[callers[c].proc] = NoCaller
    /\ lock' = [lock EXCEPT ![callers[c].proc] = c]
    /\ callers' = [callers EXCEPT ![c].pc = "locked"]
    /\ UNCHANGED <<syncVars, sendVars, pipeVars>>

\* handle_run_sync up to the built engine: new() loads the state file.
ExecNew(c) ==
    LET loaded == LoadState(disk, TRUE)
    IN /\ callers[c].pc = "locked"
       /\ callers' = [callers EXCEPT
                         ![c].pc = IF loaded.ok THEN "loaded" ELSE "returned",
                         ![c].from = disk,
                         ![c].state = IF loaded.ok THEN loaded.val ELSE SyncStateDefault,
                         ![c].status = IF loaded.ok THEN Success ELSE ErrorExecFailed]
       /\ UNCHANGED <<lock, syncVars, sendVars, pipeVars>>

\* engine.run() as a whole: both fetches, the analysis, the branch and
\* save_state; the remotes are where the local branches are.  stale records a
\* save over a file that is no longer the one this engine loaded.
ExecRun(c) ==
    LET sOdb == FetchInto(parents, srcOdb, srcHead)
        tOdb == FetchInto(parents, tgtOdb, tgtHead)
        a == Analysis(parents, callers[c].state, sOdb, tOdb, srcHead, tgtHead)
        d == Decide(a.loc.source_ahead, a.loc.target_ahead)
        saves == a.ok /\ d \in {"Forward", "Reverse"}
        new == ToJson(Synced(IF d = "Forward" THEN srcHead ELSE tgtHead))
    IN /\ callers[c].pc = "loaded"
       /\ srcOdb' = sOdb
       /\ tgtOdb' = tOdb
       /\ \E w \in IF saves THEN WriteOutcomes(disk, new) ELSE {[ok |-> FALSE, file |-> disk]} :
             /\ disk' = w.file
             /\ callers' = [callers EXCEPT
                               ![c].pc = "returned",
                               ![c].stale = saves /\ disk # callers[c].from,
                               ![c].status = IF (saves /\ w.ok) \/ (a.ok /\ d = "UpToDate")
                                             THEN Success ELSE ErrorExecFailed]
       /\ UNCHANGED <<lock, parents, srcHead, tgtHead, state, pc, loc, result, trace, snap,
                       prev, sendVars, pipeVars>>

\* module_exec returns and the guard is dropped.
ExecReturn(c) ==
    /\ callers[c].pc = "returned"
    /\ callers' = [callers EXCEPT ![c].pc = "gone"]
    /\ lock' = [lock EXCEPT ![callers[c].proc] = IF @ = c THEN NoCaller ELSE @]
    /\ UNCHANGED <<syncVars, sendVars, pipeVars>>

NextExec ==
    \/ \E c \in Callers : ExecLock(c)
    \/ \E c \in Callers : ExecNew(c)
    \/ \E c \in Callers : ExecRun(c)
    \/ \E c \in Callers : ExecReturn(c)

SpecExec == InitExec /\ [][NextExec]_vars

\* ------------------------------------------------- git_ops::handle_send
\* The sync engine is not running.
SyncOff ==
    /\ parents = [c \in Commits |-> {}]
    /\ srcHead = 1
    /\ tgtHead = 1
    /\ srcOdb = {1}
    /\ tgtOdb = {1}
    /\ disk = NoFile
    /\ state = SyncStateDefault
    /\ pc = "idle"
    /\ loc = NoLoc
    /\ result = NoResult
    /\ trace = <<>>
    /\ snap = NoSnap
    /\ prev = NoPrev

InitSend == SyncOff /\ ExecIdle /\ SendIdle /\ PipeIdle

\* The most arguments a call is given, the command name included.
MaxArgs == 3

\* What git leaves on stderr when it exits with an error; execute_git_command
\* returns that text as the Err.  With nothing to commit git exits 1 and
\* reports it either on stderr or, as git 2.x does, on stdout only.
NothingToCommit == "nothing to commit, working tree clean"
CleanTreeStderr == {"", NothingToCommit}
OtherStderr == {"fatal: unable to write new index file", "fatal: unable to access remote"}
\* e.contains("nothing to commit") || e.contains("no changes added to commit")
SaysNothingToCommit(e) == e \in {NothingToCommit, "no changes added to commit"}

\* A git command succeeds or fails with its stderr.
GitOutcomes == {Ok(0)} \cup {Err(e) : e \in OtherStderr}

\* git commit on the working tree: it fails on a clean tree, and succeeds or
\* fails on a dirty one.
CommitOutcomes(tree) ==
    IF tree = "clean" THEN {Err(e) : e \in CleanTreeStderr}
    ELSE {Ok(0)} \cup {Err(e) : e \in OtherStderr}

\* The upstream of the current branch as git names it, split at each '/':
\* <<"origin", "main">> is origin/main.  split_once('/') takes the first
\* segment as the remote and the rest as the branch.
Upstreams == {<<"origin", "main">>, <<"fork", "feature", "x">>, <<"main">>}
SplitOnce(u) == IF Len(u) < 2 THEN Err("Could not parse upstream")
                ELSE Ok([remote |-> Head(u), branch |-> Tail(u)])

\* confirmation.trim().to_lowercase() of what the user typed.
Answers == {"y", "Y", " y ", "n", "yes", ""}
TrimLower(a) == IF a \in {"y", "Y", " y "} THEN "y" ELSE IF a = "yes" THEN "yes"
                ELSE IF a = "n" THEN "n" ELSE ""

SendErr(e) == [ok |-> FALSE, err |-> e, detail |-> "", remote |-> "", branch |-> <<>>]
\* CommandError::GitError carries the text git_wrapper returned.
GitError(text) == [SendErr("GitError") EXCEPT !.detail = text]

SendFinish(r) ==
    /\ sendResult' = r
    /\ send' = [send EXCEPT !.at = "done"]

\* handle_send, step 1: the commit message is taken from the arguments.
SendEnter(nargs, skip_confirmation, tree) ==
    /\ send.at = "off"
    /\ sendLog' = <<>>
    /\ IF nargs <= 1
       THEN /\ sendResult' = SendErr("MissingCommitMessage")
            /\ send' = [NoSend EXCEPT !.at = "done", !.nargs = nargs,
                                      !.skip = skip_confirmation, !.tree = tree]
       ELSE /\ sendResult' = NoSendResult
            /\ send' = [NoSend EXCEPT !.at = "add", !.nargs = nargs,
                                      !.skip = skip_confirmation, !.tree = tree]
    /\ UNCHANGED <<syncVars, execVars, pipeVars>>

\* Step 2: git add .
GitAdd(out) ==
    /\ send.at = "add"
    /\ sendLog' = Append(sendLog, "add")
    /\ IF out.ok THEN send' = [send EXCEPT !.at = "commit"] /\ UNCHANGED sendResult
       ELSE SendFinish(GitError(out.err))
    /\ UNCHANGED <<syncVars, execVars, pipeVars>>

\* Step 3: git commit -m <message>.
GitCommit(out) ==
    /\ send.at = "commit"
    /\ sendLog' = Append(sendLog, "commit")
    /\ IF out.ok THEN send' = [send EXCEPT !.at = "upstream"] /\ UNCHANGED sendResult
       ELSE IF SaysNothingToCommit(out.err) THEN SendFinish(SendErr("NoChanges"))
       ELSE SendFinish(GitError(out.err))
    /\ UNCHANGED <<syncVars, execVars, pipeVars>>

\* Step 4: the upstream is asked of git and split into remote and branch.
GitUpstream(found, u) ==
    /\ send.at = "upstream"
    /\ sendLog' = Append(sendLog, "upstream")
    /\ IF ~found
       THEN /\ sendResult' = SendErr("NoUpstreamConfigured")
            /\ send' = [send EXCEPT !.at = "done", !.up = "unset"]
       ELSE IF ~SplitOnce(u).ok
       THEN /\ sendResult' = GitError(SplitOnce(u).err)
            /\ send' = [send EXCEPT !.at = "done", !.up = "unparsable"]
       ELSE /\ send' = [send EXCEPT !.at = IF send.skip THEN "push" ELSE "confirm",
                                    !.up = "set",
                                    !.remote = SplitOnce(u).val.remote,
                                    !.branch = SplitOnce(u).val.branch]
            /\ UNCHANGED sendResult
    /\ UNCHANGED <<syncVars, execVars, pipeVars>>

\* Step 5: the prompt, unless skipped.
Confirm(answer) ==
    /\ send.at = "confirm"
    /\ sendLog' = Append(sendLog, "confirm")
    /\ IF TrimLower(answer) # "y"
       THEN /\ sendResult' = SendErr("OperationAborted")
            /\ send' = [send EXCEPT !.at = "done", !.confirmation = answer]
       ELSE /\ send' = [send EXCEPT !.at = "push", !.confirmation = answer]
            /\ UNCHANGED sendResult
    /\ UNCHANGED <<syncVars, execVars, pipeVars>>

\* Step 6: git push <remote> <branch>.
GitPush(out) ==
    /\ send.at = "push"
    /\ sendLog' = Append(sendLog, "push")
    /\ IF out.ok
       THEN SendFinish([NoSendResult EXCEPT !.remote = send.remote, !.branch = send.branch])
       ELSE SendFinish(GitError(out.err))
    /\ UNCHANGED <<syncVars, execVars, pipeVars>>

NextSend ==
    \/ \E n \in 1..MaxArgs, skip \in BOOLEAN, tree \in {"clean", "dirty"} : SendEnter(n, skip, tree)
    \/ \E out \in GitOutcomes : GitAdd(out)
    \/ \E out \in CommitOutcomes(send.tree) : GitCommit(out)
    \/ \E found \in BOOLEAN, u \in Upstreams : GitUpstream(found, u)
    \/ \E a \in Answers : Confirm(a)
    \/ \E out \in GitOutcomes : GitPush(out)

SpecSend == InitSend /\ [][NextSend]_vars

\* ------------------------------------------- pipeline_controller::reconcile
\* "backoffLimit": 1 in the Job the controller creates: one retry.
BackoffLimit == 1

StepLists == UNION {[1..n -> StepNames] : n \in 0..MaxSteps}
StageLists == UNION {[1..n -> StepLists] : n \in 0..MaxStages}
PipeSpecs == {NoPipeSpec} \cup {[some |-> TRUE, stages |-> st] : st \in StageLists}

\* A pipeline object as it is created: no finalizer, no status or Pending.
InitPipe ==
    /\ SyncOff /\ ExecIdle /\ SendIdle
    /\ pipeSpec \in PipeSpecs
    /\ pipeMeta = [finalizer |-> FALSE, deleting |-> FALSE, gone |-> FALSE]
    /\ pipeStatus \in {StatusDefault, [StatusDefault EXCEPT !.phase = "Pending"]}
    /\ jobs = [j \in JobNames |-> NoJob]
    /\ created = <<>>
    /\ controller = "up"

UnwrapOr(o, d) == IF IsSome(o) THEN Unwrap(o) ELSE d

\* What one reconcile leaves behind.
Outcome(st, meta, js, cr, ctl) ==
    [status |-> st, meta |-> meta, jobs |-> js, created |-> cr, controller |-> ctl]
Untouched == Outcome(pipeStatus, pipeMeta, jobs, created, controller)

\* on_error: phase Failed over the status of the object that was reconciled,
\* whatever its phase; the patch itself may fail.
OnError(patched) ==
    IF patched THEN [Untouched EXCEPT !.status = [pipeStatus EXCEPT !.phase = "Failed"]]
    ELSE Untouched

\* update_status(...)? : the status is patched, or the error goes to on_error.
UpdateStatus(st, written, patched) ==
    IF written THEN [Untouched EXCEPT !.status = st] ELSE OnError(patched)

\* The branch handle_running_pipeline takes on the Job it has read.
JobVerdictAnyStatus(job) ==
    IF ~job.status THEN "no_status" ELSE "succeeded"
JobVerdict(job) ==
    IF ~job.status THEN "no_status"
    ELSE IF job.succeeded > 0 THEN "succeeded"
    ELSE IF job.failed > 0 THEN "failed"
    ELSE "running"

\* The indices after the current step's Job succeeded.
Advance(st, stage_index, step_index, steps) ==
    IF step_index + 1 >= Len(steps)
    THEN [st EXCEPT !.stage = Some(stage_index + 1), !.step = Some(0)]
    ELSE [st EXCEPT !.step = Some(step_index + 1)]

HandleRunningPipeline(getFails, written, patched) ==
    LET stage_index == UnwrapOr(pipeStatus.stage, 0)
        step_index == UnwrapOr(pipeStatus.step, 0)
        stages == pipeSpec.stages
    IN  IF ~pipeSpec.some THEN OnError(patched)
        ELSE IF stage_index >= Len(stages)
        THEN UpdateStatus([pipeStatus EXCEPT !.phase = "Succeeded"], written, patched)
        ELSE IF step_index >= Len(stages[stage_index + 1])
        THEN [Untouched EXCEPT !.controller = "panicked"]
        ELSE LET steps == stages[stage_index + 1]
                 job_name == JobName(stage_index, steps[step_index + 1])
                 job == jobs[job_name]
             IN  IF getFails THEN OnError(patched)
                 ELSE IF ~job.exists
                 THEN IF written
                      THEN [Untouched EXCEPT
                              !.jobs = [jobs EXCEPT ![job_name] = [NoJob EXCEPT !.exists = TRUE]],
                              !.created = Append(created, [stage |-> stage_index,
                                                           step |-> step_index,
                                                           job |-> job_name])]
                      ELSE OnError(patched)
                 ELSE CASE JobVerdict(job) = "succeeded" ->
                             UpdateStatus(Advance(pipeStatus, stage_index, step_index, steps),
                                          written, patched)
                        [] JobVerdict(job) = "failed" ->
                             UpdateStatus([pipeStatus EXCEPT !.phase = "Failed"], written, patched)
                        [] OTHER -> Untouched

ApplyPipeline(getFails, written, patched) ==
    CASE pipeStatus.phase \in {"None", "Pending"} ->
           UpdateStatus([phase |-> "Running", stage |-> Some(0), step |-> Some(0)],
                        written, patched)
      [] pipeStatus.phase = "Running" -> HandleRunningPipeline(getFails, written, patched)
      [] OTHER -> Untouched

\* reconcile with the error policy the controller applies to its Err:
\* finalizer() adds the finalizer to a new object, runs apply_pipeline on a
\* live one, and on a deleted one runs cleanup_pipeline and removes the
\* finalizer.  getFails: jobs.get answers with an error other than 404;
\* written: this reconcile's write to the API succeeds; patched: on_error's
\* status patch succeeds.
Reconcile(getFails, written, patched) ==
    /\ controller = "up"
    /\ ~pipeMeta.gone
    /\ LET out == CASE ~pipeMeta.finalizer /\ ~pipeMeta.deleting ->
                         IF written THEN [Untouched EXCEPT !.meta.finalizer = TRUE]
                         ELSE OnError(patched)
                    [] pipeMeta.finalizer /\ pipeMeta.deleting ->
                         IF written THEN [Untouched EXCEPT !.meta.gone = TRUE]
                         ELSE OnError(patched)
                    [] pipeMeta.finalizer /\ ~pipeMeta.deleting ->
                         ApplyPipeline(getFails, written, patched)
                    [] OTHER -> Untouched
       IN  /\ pipeStatus' = out.status
           /\ pipeMeta' = out.meta
           /\ jobs' = out.jobs
           /\ created' = out.created
           /\ controller' = out.controller
    /\ UNCHANGED <<syncVars, execVars, sendVars, pipeSpec>>

\* The Job controller reports a status for a Job.
JobStarts(j) ==
    /\ jobs[j].exists /\ ~jobs[j].status
    /\ jobs' = [jobs EXCEPT ![j].status = TRUE]
    /\ UNCHANGED <<syncVars, execVars, sendVars, pipeSpec, pipeMeta, pipeStatus, created, controller>>

\* A pod of the Job fails; after BackoffLimit retries the Job has failed.
PodFails(j) ==
    /\ jobs[j].status /\ jobs[j].succeeded = 0 /\ jobs[j].failed <= BackoffLimit
    /\ jobs' = [jobs EXCEPT ![j].failed = @ + 1]
    /\ UNCHANGED <<syncVars, execVars, sendVars, pipeSpec, pipeMeta, pipeStatus, created, controller>>

\* A pod of the Job completes.
PodSucceeds(j) ==
    /\ jobs[j].status /\ jobs[j].succeeded = 0 /\ jobs[j].failed <= BackoffLimit
    /\ jobs' = [jobs EXCEPT ![j].succeeded = 1]
    /\ UNCHANGED <<syncVars, execVars, sendVars, pipeSpec, pipeMeta, pipeStatus, created, controller>>

\* The user deletes the pipeline: with the finalizer it is marked, without it
\* it is gone.
DeletePipeline ==
    /\ ~pipeMeta.gone /\ ~pipeMeta.deleting
    /\ pipeMeta' = IF pipeMeta.finalizer THEN [pipeMeta EXCEPT !.deleting = TRUE]
                   ELSE [pipeMeta EXCEPT !.gone = TRUE]
    /\ UNCHANGED <<syncVars, execVars, sendVars, pipeSpec, pipeStatus, jobs, created, controller>>

NextPipe ==
    \/ \E getFails \in BOOLEAN, written \in BOOLEAN, patched \in BOOLEAN :
          Reconcile(getFails, written, patched)
    \/ \E j \in JobNames : JobStarts(j)
    \/ \E j \in JobNames : PodFails(j)
    \/ \E j \in JobNames : PodSucceeds(j)
    \/ DeletePipeline

SpecPipe == InitPipe /\ [][NextPipe]_vars

\* ================================================================ claims
\* The steps an invocation takes are recorded in trace: 1 new, 2 fetch_source,
\* 3 fetch_target, 4 analyze, 5 the decision, 6 the persist.  A fetch event
\* carries 1 when the fetch failed; the first event carries the number of
\* arguments.
EventNames == {trace[i].ev : i \in 1..Len(trace)}
AnalysisRan == "analyze" \in EventNames
\* The analysis succeeded: the run is at its decision or has taken it.
AnalysisDone == pc = "decide" \/ Len(trace) >= 5
LoadedBoth == IsSome(snap.state.last_source_synced_oid) /\ IsSome(snap.state.last_target_synced_oid)

\* C1: a run whose analysis finds source_ahead > 0 and target_ahead > 0
\* reports the divergence error, never takes an apply or persist step, and
\* leaves both branch heads and the checkpoint, in memory and on disk, as the
\* run found them.
C1_DivergedNeverResolves ==
    (AnalysisDone /\ loc.source_ahead > 0 /\ loc.target_ahead > 0) =>
        /\ pc # "save"
        /\ EventNames \cap {"apply_forward", "apply_reverse", "persist", "persist_failed"} = {}
        /\ srcHead = snap.srcHead /\ tgtHead = snap.tgtHead
        /\ Anc(parents, srcHead) \subseteq srcOdb /\ Anc(parents, tgtHead) \subseteq tgtOdb
        /\ disk = snap.disk /\ state = snap.state
        /\ pc = "done" => result = [ok |-> FALSE, msg |-> MsgDiverged]

C1_Witness ==
    /\ pc = "done" /\ AnalysisDone
    /\ loc.source_ahead > 0 /\ loc.target_ahead > 0
    /\ result.msg = MsgDiverged
    /\ snap.state = SyncStateDefault
    /\ loc.base_oid \in Anc(parents, srcHead) \cap Anc(parents, tgtHead)

\* C2: when a run has persisted a checkpoint, both branch heads are the one
\* commit the checkpoint records for both sides.
C2_PersistImpliesConverged ==
    (pc = "done" /\ "persist" \in EventNames) =>
        /\ srcHead = tgtHead
        /\ disk = ToJson(Synced(srcHead))

\* The saved ids a run loaded, as commits.
SavedSource == OidFromStr(Unwrap(snap.state.last_source_synced_oid)).val
SavedTarget == OidFromStr(Unwrap(snap.state.last_target_synced_oid)).val

\* C4: with both branch heads at the same commit, and the checkpoint empty or
\* holding two earlier commits of the shared history, a run whose fetches
\* succeed returns the in-sync message and leaves the checkpoint's ids as they
\* were.
C4_UpToDateIdempotent ==
    (/\ pc = "done" /\ AnalysisRan
     /\ srcHead = tgtHead
     /\ \/ snap.state = SyncStateDefault
        \/ /\ LoadedBoth
           /\ {SavedSource, SavedTarget} \subseteq Anc(parents, srcHead)
           /\ MergeBase(parents, srcOdb, SavedSource, SavedTarget).ok)
    => /\ result = [ok |-> TRUE, msg |-> MsgInSync]
       /\ state = snap.state
       /\ disk = snap.disk

\* Every step of b in the trace has a step of a earlier in the trace.
Before(a, b) ==
    \A j \in 1..Len(trace) :
        trace[j].ev \in b => \E i \in 1..(j - 1) : trace[i].ev \in a

\* C5: in one run the source fetch and the target fetch both come before the
\* analysis, the analysis before an apply, and an apply before the persist;
\* no step is taken twice.
C5_PhaseOrder ==
    /\ Before({"fetch_source"}, {"fetch_target", "analyze"})
    /\ Before({"fetch_target"}, {"analyze"})
    /\ Before({"analyze"}, {"apply_forward", "apply_reverse", "diverged", "up_to_date"})
    /\ Before({"apply_forward", "apply_reverse"}, {"persist", "persist_failed"})
    /\ \A i, j \in 1..Len(trace) : trace[i].ev = trace[j].ev => i = j
    /\ pc = "analyze" => {"fetch_source", "fetch_target"} \subseteq EventNames
    /\ pc = "decide" => AnalysisRan
    /\ pc = "save" => EventNames \cap {"apply_forward", "apply_reverse"} # {}

C5_Witness ==
    /\ pc = "done"
    /\ [i \in 1..Len(trace) |-> trace[i].ev] =
          <<"new", "fetch_source", "fetch_target", "analyze", "apply_reverse", "persist">>

\* C6: the decision is a function of the two ahead counts: (0,0) in sync,
\* (n>0,0) forward with count n, (0,n>0) reverse with count n, and both
\* positive diverged.
C6_DecisionTable ==
    Len(trace) >= 5 =>
        LET sa == loc.source_ahead
            ta == loc.target_ahead
        IN /\ (sa = 0 /\ ta = 0) <=> trace[5] = Event("up_to_date", 0)
           /\ (sa > 0 /\ ta = 0) <=> trace[5] = Event("apply_forward", sa)
           /\ (sa = 0 /\ ta > 0) <=> trace[5] = Event("apply_reverse", ta)
           /\ (sa > 0 /\ ta > 0) <=> trace[5] = Event("diverged", 0)

C6_Witness ==
    /\ Len(trace) >= 5
    /\ loc.source_ahead = 0 /\ loc.target_ahead = 2
    /\ trace[5] = Event("apply_reverse", 2)

\* The number of commits of a's history that are not in b's.
AheadOf(a, b) == Cardinality(Anc(parents, a) \ Anc(parents, b))

\* C7: with no checkpoint, the target head an ancestor of the source head and
\* the source k > 0 commits ahead, a run whose fetches succeed takes the
\* forward branch with count k, and when it returns success the file records
\* the source head for both sides.
C7_ForwardScenario ==
    (/\ AnalysisRan /\ pc \in {"decide", "save", "done"}
     /\ snap.state = SyncStateDefault
     /\ tgtHead \in Anc(parents, srcHead)
     /\ AheadOf(srcHead, tgtHead) > 0)
    => /\ AnalysisDone
       /\ Len(trace) >= 5 => trace[5] = Event("apply_forward", AheadOf(srcHead, tgtHead))
       /\ (pc = "done" /\ result.ok) =>
             /\ result.msg = MsgForward
             /\ disk = JsonFile(JStr(OidToString(srcHead)), JStr(OidToString(srcHead)))

C7_Witness ==
    /\ pc = "done" /\ result.ok
    /\ snap.disk = NoFile
    /\ tgtHead \in Anc(parents, srcHead)
    /\ AheadOf(srcHead, tgtHead) = 2
    /\ trace[5] = Event("apply_forward", 2)

\* C8: when both saved ids are set and their merge-base lookup fails while the
\* heads have a merge base, the analysis does not fail: the base is the merge
\* base of the two heads.
C8_StaleCheckpointFallback ==
    (/\ AnalysisRan /\ pc \in {"decide", "save", "done"}
     /\ LoadedBoth
     /\ ~MergeBase(parents, srcOdb, SavedSource, SavedTarget).ok
     /\ MergeBase(parents, srcOdb, srcHead, tgtHead).ok)
    => /\ AnalysisDone
       /\ loc.base_oid = MergeBase(parents, srcOdb, srcHead, tgtHead).val

\* C9: when both saved ids are set and resolve, the base is the merge base of
\* the saved ids, whatever the current heads are.
C9_BaseFromCheckpoint ==
    (/\ AnalysisRan /\ pc \in {"decide", "save", "done"}
     /\ LoadedBoth
     /\ MergeBase(parents, srcOdb, SavedSource, SavedTarget).ok)
    => \/ /\ AnalysisDone
          /\ loc.base_oid = SetMax(BestCommon(parents, SavedSource, SavedTarget))
       \/ /\ ~AnalysisDone
          /\ result.msg = "git2: object not found"

C9_Witness ==
    /\ AnalysisDone /\ LoadedBoth
    /\ MergeBase(parents, srcOdb, srcHead, tgtHead).ok
    /\ loc.base_oid # MergeBase(parents, srcOdb, srcHead, tgtHead).val
    /\ loc.base_oid = SetMax(BestCommon(parents, SavedSource, SavedTarget))
    /\ loc.base_oid \in Anc(parents, srcHead) \cap Anc(parents, tgtHead)

\* C10: with an empty checkpoint the base is the merge base of the two heads
\* whenever their histories share a commit, and the analysis fails, with an
\* error that is not the fetch error, exactly when they share none.
C10_EmptyCheckpointBase ==
    (/\ AnalysisRan /\ pc \in {"decide", "save", "done"}
     /\ snap.state = SyncStateDefault)
    => IF Anc(parents, srcHead) \cap Anc(parents, tgtHead) # {}
       THEN /\ AnalysisDone
            /\ loc.base_oid = SetMax(BestCommon(parents, srcHead, tgtHead))
       ELSE /\ ~AnalysisDone
            /\ ~result.ok
            /\ result.msg # MsgFetch

\* ---------------------------------------------------------------- C11
\* The commits reachable from a head and not from a base, counted by walking
\* the graph from the head and stopping at every commit the base reaches.
RECURSIVE Walk(_, _, _)
Walk(p, c, stop) == IF c \in stop THEN {}
                    ELSE {c} \cup UNION {Walk(p, q, stop) : q \in p[c]}
OnlyFrom(head, base) == Walk(parents, head, Anc(parents, base))

\* C11: once the analysis has its counts, the source count is the number of
\* commits reachable from the source's head and not from the base, the target
\* count is the same number for the target's head, and neither depends on the
\* other side's head.
C11_AheadCounts ==
    AnalysisDone =>
        /\ loc.source_ahead = Cardinality(OnlyFrom(srcHead, loc.base_oid))
        /\ loc.target_ahead = Cardinality(OnlyFrom(tgtHead, loc.base_oid))

\* The two counts differ and the base is neither head.
C11_Witness ==
    /\ AnalysisDone
    /\ loc.source_ahead = 2
    /\ loc.target_ahead = 1
    /\ loc.base_oid \notin {srcHead, tgtHead}

\* ---------------------------------------------------------------- C12
SharedAncestor == Anc(parents, srcHead) \cap Anc(parents, tgtHead) # {}

\* C12: two repositories that share an ancestor are analysed from an empty
\* checkpoint, then with the roles swapped from an empty checkpoint: both runs
\* succeed and the second run's counts are the first run's counts exchanged.
C12_SwapSymmetry ==
    (/\ pc = "done"
     /\ prev.swapped
     /\ prev.state = SyncStateDefault
     /\ snap.state = SyncStateDefault
     /\ SharedAncestor)
    => /\ prev.ok
       /\ AnalysisDone
       /\ loc.source_ahead = prev.loc.target_ahead
       /\ loc.target_ahead = prev.loc.source_ahead

\* ---------------------------------------------------------------- C13
\* A second analysis after commits were added on top of the source's head: the
\* target's head and the loaded checkpoint are those of the first analysis and
\* the base is the same commit.
SourceGained ==
    /\ pc = "done"
    /\ prev.set /\ ~prev.swapped /\ prev.ok
    /\ AnalysisDone
    /\ tgtHead = prev.tgtHead
    /\ snap.state = prev.state
    /\ loc.base_oid = prev.loc.base_oid
Gained == Cardinality(Anc(parents, srcHead) \ Anc(parents, prev.srcHead))

\* C13 as stated: after N commits are added on top of the source's head, with
\* the target's head, the checkpoint and the base unchanged, the source count
\* has grown by N and the target count is the same.
C13_Monotone ==
    SourceGained =>
        /\ loc.source_ahead = prev.loc.source_ahead + Gained
        /\ loc.target_ahead = prev.loc.target_ahead

\* C13 amended: the same, provided the base is an ancestor of the head the
\* source had at the first analysis.
C13_MonotoneFromAncestorBase ==
    (SourceGained /\ loc.base_oid \in Anc(parents, prev.srcHead)) =>
        /\ loc.source_ahead = prev.loc.source_ahead + Gained
        /\ loc.target_ahead = prev.loc.target_ahead

\* The source was one ahead, gained a commit and is two ahead.
C13_Witness ==
    /\ SourceGained
    /\ loc.base_oid \in Anc(parents, prev.srcHead)
    /\ prev.loc.source_ahead = 1
    /\ Gained = 1
    /\ loc.source_ahead = 2

\* ---------------------------------------------------------------- C14
FetchEvents == {"fetch_source", "fetch_target"}
FetchFailed == \E i \in 1..Len(trace) : trace[i].ev \in FetchEvents /\ trace[i].n = 1
Times(e) == Cardinality({i \in 1..Len(trace) : trace[i].ev = e})

\* C14: a failed fetch on either side is the last step of its run: the run
\* returns the fetch error, nothing was analysed, and the checkpoint in memory
\* and on disk is as the run found it; no run fetches a side twice.
C14_FetchFailureAborts ==
    /\ Times("fetch_source") <= 1
    /\ Times("fetch_target") <= 1
    /\ FetchFailed =>
          /\ pc = "done"
          /\ result = [ok |-> FALSE, msg |-> MsgFetch]
          /\ trace[Len(trace)].ev \in FetchEvents
          /\ loc = NoLoc
          /\ state = snap.state
          /\ disk = snap.disk

\* The target's fetch failed after the source's fetch succeeded, with a
\* checkpoint loaded.
C14_Witness ==
    /\ FetchFailed
    /\ Len(trace) = 3
    /\ trace[2] = Event("fetch_source", 0)
    /\ LoadedBoth

\* ---------------------------------------------------------------- C15
\* The commit identifiers a checkpoint file holds; none when there is no file
\* or it does not parse.
Ids(f) == IF f.exists /\ FromJsonOk(f) THEN <<FromJson(f)>> ELSE <<>>
Applied == result.ok /\ result.msg \in {MsgForward, MsgReverse}

\* C15: a run that did not end as an applied forward or reverse sync leaves the
\* commit identifiers of the checkpoint file as it found them.
C15_WrittenOnlyWhenApplied ==
    (pc = "done" /\ ~Applied) => Ids(disk) = Ids(snap.disk)

\* ---------------------------------------------------------------- C16
\* C16: an invocation with two arguments whose repositories open goes on to
\* the fetch whatever the state file holds, and with the empty default
\* checkpoint when the file is absent or does not parse.
C16_LoadNeverFails ==
    (Len(trace) >= 1 /\ trace[1].ev \notin {"usage", "open_failed"}) =>
        /\ trace[1].ev = "new"
        /\ (~snap.disk.exists \/ ~FromJsonOk(snap.disk)) => snap.state = SyncStateDefault

\* ---------------------------------------------------------------- C17
\* C17: when the process dies during the save over a valid checkpoint file, the
\* file afterwards holds the complete content it had before or the complete
\* new content.
C17_CrashConsistentSave ==
    [][(pc = "save" /\ pc' = "idle" /\ disk.exists /\ FromJsonOk(disk))
          => disk' \in {disk, ToJson(state)}]_vars

\* ---------------------------------------------------------------- C18
\* C18: a checkpoint x was saved; loading the file gives x, saving the loaded
\* value leaves the file's content as it was, and loading again gives x.
C18_RoundTrip ==
    /\ pc # "rt_load_failed"
    /\ pc \in {"rt_loaded", "rt_saved", "rt_reloaded"} => state = snap.state
    /\ pc \in {"rt_saved", "rt_reloaded"} => disk = snap.disk

\* A checkpoint with two different ids went through the whole round.
C18_Witness ==
    /\ pc = "rt_reloaded"
    /\ state = [last_source_synced_oid |-> Some("a1"), last_target_synced_oid |-> Some("b2")]
    /\ disk = JsonFile(JStr("a1"), JStr("b2"))
    /\ snap.disk = disk

\* ---------------------------------------------------------------- C19
LoadedOne ==
    IsSome(snap.state.last_source_synced_oid) # IsSome(snap.state.last_target_synced_oid)
TheOne ==
    IF IsSome(snap.state.last_source_synced_oid)
    THEN OidFromStr(Unwrap(snap.state.last_source_synced_oid)).val
    ELSE OidFromStr(Unwrap(snap.state.last_target_synced_oid)).val
FromEmpty == Analysis(parents, SyncStateDefault, srcOdb, tgtOdb, srcHead, tgtHead)

\* C19: a run that loaded a checkpoint with exactly one id analyses as a run
\* with the empty checkpoint does on the same repositories: the same base and
\* counts, or the same error.
C19_OneSidedIgnored ==
    (LoadedOne /\ AnalysisRan /\ pc \in {"decide", "save", "done"}) =>
        /\ AnalysisDone <=> FromEmpty.ok
        /\ AnalysisDone => loc = FromEmpty.loc
        /\ ~AnalysisDone => result = [ok |-> FALSE, msg |-> FromEmpty.err]

\* The one saved id names a commit that is not the base the run computed.
C19_Witness ==
    /\ LoadedOne
    /\ AnalysisDone
    /\ TheOne # loc.base_oid
    /\ loc.source_ahead > 0

\* ---------------------------------------------------------------- C20
\* What run() returns for a failed fetch, for heads without a common ancestor
\* and for a failed write.
TrueErrors == {[ok |-> FALSE, msg |-> m] : m \in {MsgFetch, "git2: no merge base found", MsgIo}}

\* C20: the result of a run that found the repositories diverged differs from
\* the result of every true error in its variant, and its status at the
\* command entry point is not the status a true error gets.
C20_DivergedDistinct ==
    (pc = "done" /\ result.msg = MsgDiverged) =>
        \A e \in TrueErrors : /\ result.ok # e.ok
                              /\ ModuleExecStatus(result) # ModuleExecStatus(e)

\* ---------------------------------------------------------------- C21
\* What the analysis of this pair gives from the checkpoint file as it was
\* before the other pair's run.
Undisturbed ==
    Analysis(parents, LoadState(prev.disk, TRUE).val, srcOdb, tgtOdb, srcHead, tgtHead)

\* C21: a run on one pair that follows a run on a pair with another target
\* analyses as it would have without that run: the same base and counts, or
\* the same error.
C21_PairsIndependent ==
    (/\ prev.set
     /\ LoadState(prev.disk, TRUE).ok
     /\ AnalysisRan
     /\ pc \in {"decide", "save", "done"})
    => /\ AnalysisDone <=> Undisturbed.ok
       /\ AnalysisDone => loc = Undisturbed.loc

\* ---------------------------------------------------------------- C22
\* C22: of the sync-run calls on one repository pair at most one at a time is
\* between loading the checkpoint and persisting it, and no call saves over a
\* checkpoint file another call has written since this one loaded it.
C22_SingleWriter ==
    /\ Cardinality({c \in Callers : callers[c].pc = "loaded"}) <= 1
    /\ \A c \in Callers : ~callers[c].stale

\* ---------------------------------------------------------------- C23
\* C23: a run whose save_state failed returns an error, and the checkpoint
\* file holds what it held when the run started.
C23_FailedSaveKeepsFile ==
    "persist_failed" \in EventNames =>
        /\ pc = "done"
        /\ ~result.ok
        /\ disk = snap.disk

\* ---------------------------------------------------------------- C24
\* C24: a call with a number of arguments other than 2 returns the usage
\* error and nothing else happens: no repository is opened, no state is
\* loaded and the file is as it was.  A call with 2 arguments builds the
\* engine or fails doing so, and what it returns is never the usage error.
C24_Arity ==
    Len(trace) >= 1 =>
        /\ trace[1].n # 2 =>
              /\ trace = <<Event("usage", trace[1].n)>>
              /\ pc = "done"
              /\ result = [ok |-> FALSE, msg |-> MsgUsage]
              /\ state = SyncStateDefault
              /\ disk = snap.disk
        /\ trace[1].n = 2 =>
              /\ trace[1].ev \in {"new", "open_failed", "load_failed"}
              /\ pc = "done" => result.msg \notin {MsgUsage, ""}

\* Three arguments and a state file with two ids: the usage error.
C24_Witness ==
    /\ trace = <<Event("usage", 3)>>
    /\ Ids(disk) # <<>>
    /\ result.msg = MsgUsage

\* ---------------------------------------------------------------- C25
SendSteps == <<"add", "commit", "upstream", "confirm", "push">>
GitSteps == SelectSeq(sendLog, LAMBDA c : c # "confirm")
Pushed == \E i \in 1..Len(sendLog) : sendLog[i] = "push"
Returned(e) == send.at = "done" /\ ~sendResult.ok /\ sendResult.err = e

\* C25: the steps run in the order stage, commit, resolve upstream, confirm,
\* push, and the push comes only after all of them; without a commit message
\* nothing is run and MissingCommitMessage is returned, on a clean working tree
\* the commit step returns NoChanges, with no upstream NoUpstreamConfigured is
\* returned, and in none of these cases anything is pushed.
C25_SendOrder ==
    /\ GitSteps \in {SubSeq(<<"add", "commit", "upstream", "push">>, 1, n) : n \in 0..4}
    /\ Pushed => /\ send.up = "set"
                 /\ send.skip \/ sendLog = SendSteps
    /\ (send.at # "off" /\ send.nargs <= 1) => Returned("MissingCommitMessage") /\ sendLog = <<>>
    /\ (send.tree = "clean" /\ Len(sendLog) >= 2) => Returned("NoChanges") /\ ~Pushed
    /\ send.up = "unset" => Returned("NoUpstreamConfigured") /\ ~Pushed


\* ---------------------------------------------------------------- C26
Positions == {p \in (0..(MaxStages - 1)) \X (0..(MaxSteps - 1)) :
                 /\ p[1] < Len(pipeSpec.stages)
                 /\ p[2] < Len(pipeSpec.stages[p[1] + 1])}
Precedes(p, q) == p[1] < q[1] \/ (p[1] = q[1] /\ p[2] < q[2])
JobAt(p) == JobName(p[1], pipeSpec.stages[p[1] + 1][p[2] + 1])
HasSucceeded(j) == jobs[j].exists /\ jobs[j].status /\ jobs[j].succeeded > 0
HasOnlyFailed(j) == jobs[j].exists /\ jobs[j].status /\ jobs[j].succeeded = 0 /\ jobs[j].failed > 0
Current == <<UnwrapOr(pipeStatus.stage, 0), UnwrapOr(pipeStatus.step, 0)>>

Terminal == pipeStatus.phase \in {"Succeeded", "Failed"}

\* C27: Succeeded and Failed are terminal: from a state with either phase, no
\* step changes the phase or the stage and step indices, and none creates a Job.
C27_TerminalPhases ==
    [][Terminal => pipeStatus' = pipeStatus /\ created' = created]_vars

\* ---------------------------------------------------------------- C29
\* C29: in every Running state in which the controller goes on to read
\* spec.stages[stage_index].steps[step_index] (the spec is there and the
\* stage index is below the number of stages), the step index is below the
\* number of steps of that stage, and no reconcile has panicked.
C29_IndicesInBounds ==
    /\ controller = "up"
    /\ (/\ pipeStatus.phase = "Running" /\ pipeSpec.some /\ ~pipeMeta.gone
        /\ Current[1] < Len(pipeSpec.stages))
       => Current[2] < Len(pipeSpec.stages[Current[1] + 1])

\* ---------------------------------------------------------------- C30
CreatedFor(p) == \E i \in 1..Len(created) : <<created[i].stage, created[i].step>> = p

\* C30: two different positions of a pipeline never resolve to the same Job
\* name, and a Running pipeline moves its indices past a position only when a
\* Job was created for that position.
C30_OwnJob ==
    [][/\ \A p, q \in Positions : p # q => JobAt(p) # JobAt(q)
       /\ (/\ pipeStatus.phase = "Running" /\ pipeStatus'.phase = "Running"
           /\ <<pipeStatus'.stage, pipeStatus'.step>> # <<pipeStatus.stage, pipeStatus.step>>)
          => CreatedFor(Current) /\ HasSucceeded(JobAt(Current))
      ]_vars


\* ---------------------------------------------------------------- C28
SaidInSync == pc = "done" /\ result = [ok |-> TRUE, msg |-> MsgInSync]

\* C28: a run returns the already-in-sync result only when the source head and
\* the target head it read are the same commit; stated for the run that
\* follows an earlier run on the same pair which started without a checkpoint,
\* reported a forward or reverse sync and saved its checkpoint.
C28_InSyncMeansEqualHeads ==
    (/\ SaidInSync
     /\ prev.set /\ ~prev.swapped /\ prev.ok /\ prev.state = SyncStateDefault)
    => /\ loc.source_head = loc.target_head
       /\ srcHead = tgtHead

====
